---- MODULE Spec2Model ----
(***************************************************************************)
(* Model of arbitrage-scanner/ml_training/train_models.py: the feature     *)
(* extractor, the augmenter, the two weight estimators, the evaluator and  *)
(* the main() batch run.                                                   *)
(*                                                                         *)
(* Numbers.  Python floats are modelled as exact rationals <<n, d>> with   *)
(* d > 0 in lowest terms.  Strings are sequences of one-character strings, *)
(* so lower(), split() and the `in` substring test are computed.  An       *)
(* optional dict key is a sequence of length 0 (absent) or 1 (present).    *)
(***************************************************************************)
EXTENDS Integers, Sequences, FiniteSets, TLC

VARIABLES
    pc,                 \* position of main(): the stage about to run
    fileExists,         \* data_path.exists()
    fileData,           \* data['overlapping_markets'] of the input file
    SKLEARN_AVAILABLE,  \* module flag set by the import at lines 19-27
    rngSeed,            \* state of numpy's global generator at start
    pairs, X, y, X_aug, y_aug,
    matching_weights, matching_intercept, metrics, resolution_weights,
    output_file,        \* trained_models.json: <<>> or <<output>>
    error,              \* exception that ended main(), "" when none
    ran,                \* stages main() has executed so far
    call                \* harness: the function call made and its result

vars == <<pc, fileExists, fileData, SKLEARN_AVAILABLE, rngSeed, pairs, X, y,
          X_aug, y_aug, matching_weights, matching_intercept, metrics,
          resolution_weights, output_file, error, ran, call>>

---------------------------------------------------------------------------
(* Bounds of the model *)

MaxTitleWords == 21     \* longest kalshi title, in words
MaxPairs == 2           \* pairs in the input file
MaxRows == 2            \* rows of X in a direct function call
MaxFactor == 3          \* augmentation factor in a direct function call
MaxSeed == 2            \* generator states 0..MaxSeed

---------------------------------------------------------------------------
(* Exact rational arithmetic standing in for float arithmetic *)

RECURSIVE GCD(_, _)
GCD(a, b) == IF b = 0 THEN a ELSE GCD(b, a % b)

Abs(n) == IF n < 0 THEN -n ELSE n

\* nan is <<0, 0>>; it propagates through arithmetic and compares false
IsNaN(a) == a[2] = 0

Rat(n, d) ==
    IF d = 0 THEN <<0, 0>>
    ELSE LET g == GCD(Abs(n), Abs(d))
             s == IF d < 0 THEN -1 ELSE 1
         IN  <<s * (n \div g), s * (d \div g)>>

RInt(n) == <<n, 1>>

RAdd(a, b) ==
    IF IsNaN(a) \/ IsNaN(b) THEN <<0, 0>>
    ELSE LET g == GCD(a[2], b[2])
             l == (a[2] \div g) * b[2]
         IN  Rat(a[1] * (l \div a[2]) + b[1] * (l \div b[2]), l)

RNeg(a) == <<-a[1], a[2]>>

RSub(a, b) == RAdd(a, RNeg(b))

RMul(a, b) ==
    IF IsNaN(a) \/ IsNaN(b) THEN <<0, 0>> ELSE
    LET g1 == GCD(Abs(a[1]), b[2])
        g2 == GCD(Abs(b[1]), a[2])
        h1 == IF g1 = 0 THEN 1 ELSE g1
        h2 == IF g2 = 0 THEN 1 ELSE g2
    IN  Rat((a[1] \div h1) * (b[1] \div h2), (a[2] \div h2) * (b[2] \div h1))

RDiv(a, b) == RMul(a, Rat(b[2], b[1]))

RLe(a, b) == ~IsNaN(a) /\ ~IsNaN(b) /\ a[1] * b[2] <= b[1] * a[2]

RLt(a, b) == ~IsNaN(a) /\ ~IsNaN(b) /\ a[1] * b[2] < b[1] * a[2]

RAbs(a) == <<Abs(a[1]), a[2]>>

RMin(a, b) == IF RLe(a, b) THEN a ELSE b

RMax(a, b) == IF RLe(a, b) THEN b ELSE a

Min(a, b) == IF a <= b THEN a ELSE b

Max(a, b) == IF a >= b THEN a ELSE b

---------------------------------------------------------------------------
(* Strings *)

LowerChar(c) ==
    CASE c = "A" -> "a" [] c = "B" -> "b" [] c = "F" -> "f"
      [] c = "N" -> "n" [] c = "P" -> "p" [] OTHER -> c

\* str.lower()
Lower(s) == [i \in 1..Len(s) |-> LowerChar(s[i])]

\* str.split(): maximal runs of non-whitespace characters
RECURSIVE SplitFrom(_, _, _, _)
SplitFrom(s, i, cur, acc) ==
    IF i > Len(s)
    THEN IF cur = <<>> THEN acc ELSE Append(acc, cur)
    ELSE IF s[i] = " "
         THEN SplitFrom(s, i + 1, <<>>, IF cur = <<>> THEN acc ELSE Append(acc, cur))
         ELSE SplitFrom(s, i + 1, Append(cur, s[i]), acc)

Split(s) == SplitFrom(s, 1, <<>>, <<>>)

\* set(words)
WordSet(s) == LET ws == Split(s) IN {ws[i] : i \in DOMAIN ws}

\* needle in hay
Contains(hay, needle) ==
    \E i \in 0..(Len(hay) - Len(needle)) :
        \A j \in 1..Len(needle) : hay[i + j] = needle[j]

\* dict.get(key, default) on an optional key
Get(opt, default) == IF opt = <<>> THEN default ELSE opt[1]

---------------------------------------------------------------------------
(* FeatureVector and extract_features *)

WordCountScale == 20

NumFeatures == 11

PercentScale == 100

\* FeatureVector.to_array
to_array(fv) ==
    << RDiv(fv.title_similarity, RInt(PercentScale)),
       RDiv(fv.description_similarity, RInt(PercentScale)),
       RDiv(fv.keyword_overlap, RInt(PercentScale)),
       fv.category_match,
       fv.timing_match,
       fv.sources_match,
       RDiv(fv.alignment_score, RInt(PercentScale)),
       fv.volume_ratio,
       fv.price_correlation,
       fv.length_ratio,
       RDiv(fv.avg_word_count, RInt(WordCountScale)) >>

common_sources ==
    << <<"a", "p">>,
       <<"f", "o", "x">>,
       <<"n", "b", "c">>,
       <<"o", "f", "f", "i", "c", "i", "a", "l">>,
       <<"a", "s", "s", "o", "c", "i", "a", "t", "e", "d", " ",
         "p", "r", "e", "s", "s">> >>

k_text_of(pair) == Lower(pair.kalshi.title \o <<" ">> \o pair.kalshi.description)

p_text_of(pair) == Lower(pair.polymarket.title \o <<" ">> \o pair.polymarket.description)

\* Line 79.  The quotient of two ints; Python raises ZeroDivisionError on 0/0.
keyword_overlap_of(pair) ==
    LET k_words == WordSet(k_text_of(pair))
        p_words == WordSet(p_text_of(pair))
        den == Max(Cardinality(k_words), Cardinality(p_words))
    IN  IF den = 0 THEN <<>>
        ELSE << RMul(Rat(Cardinality(k_words \cap p_words), den), RInt(PercentScale)) >>

\* Line 84
length_ratio_of(pair) ==
    LET k_len == Len(k_text_of(pair))
        p_len == Len(p_text_of(pair))
    IN  IF Max(k_len, p_len) = 0 THEN <<>>
        ELSE << Rat(Min(k_len, p_len), Max(k_len, p_len)) >>

\* Lines 86-88
volume_ratio_of(pair) ==
    LET k_vol == Get(pair.kalshi.volume_usd, 1)
        p_vol == Get(pair.polymarket.volume_usd, 1)
    IN  IF Max(k_vol, p_vol) = 0 THEN <<>>
        ELSE << Rat(Min(k_vol, p_vol), Max(k_vol, p_vol)) >>

\* Lines 90-92
price_correlation_of(pair) ==
    LET k_price == Get(pair.kalshi.final_price_yes, <<1, 2>>)
        p_price == Get(pair.polymarket.final_price_yes, <<1, 2>>)
    IN  RSub(RInt(1), RAbs(RSub(k_price, p_price)))

\* Lines 95-98
sources_match_of(pair) ==
    LET k_source == Lower(Get(pair.kalshi.source, <<>>))
        p_source == Lower(Get(pair.polymarket.source, <<>>))
    IN  IF \E i \in DOMAIN common_sources :
              Contains(k_source, common_sources[i]) /\ Contains(p_source, common_sources[i])
        THEN RInt(1) ELSE RInt(0)

\* extract_features: [error, value]; value is <<fv>> on a normal return and
\* <<>> when the statement named in error raised.
extract_features(pair) ==
    LET ko == keyword_overlap_of(pair)
        lr == length_ratio_of(pair)
        vr == volume_ratio_of(pair)
    IN  IF ko = <<>> THEN [error |-> "ZeroDivisionError:79", value |-> <<>>]
        ELSE IF lr = <<>> THEN [error |-> "ZeroDivisionError:84", value |-> <<>>]
        ELSE IF vr = <<>> THEN [error |-> "ZeroDivisionError:88", value |-> <<>>]
        ELSE [error |-> "",
              value |-> << [ title_similarity |-> Rat(75, 2),
                             description_similarity |-> RInt(50),
                             keyword_overlap |-> ko[1],
                             category_match |-> RInt(1),
                             timing_match |-> RInt(1),
                             sources_match |-> sources_match_of(pair),
                             alignment_score |-> RInt(82),
                             volume_ratio |-> vr[1],
                             price_correlation |-> price_correlation_of(pair),
                             length_ratio |-> lr[1],
                             avg_word_count |-> RInt(Len(Split(pair.kalshi.title))) ] >>]

---------------------------------------------------------------------------
(* Input domain: MarketPair records *)

\* n times the word "a", joined by single spaces
RECURSIVE RepWord(_)
RepWord(n) ==
    IF n = 0 THEN <<>>
    ELSE IF n = 1 THEN <<"a">>
    ELSE RepWord(n - 1) \o <<" ", "a">>

KalshiTitles == {RepWord(0), <<"A", " ", "b">>, RepWord(MaxTitleWords)}

PolyTitles == {<<>>, <<"b", " ", " ", "a">>}

Descriptions == {<<>>, <<"b">>}

KalshiVolumes == {<<>>, <<0>>, <<2>>}

PolyVolumes == {<<0>>, <<2>>, <<3>>}

KalshiPrices == {<<>>, << <<0, 1>> >>}

PolyPrices == {<< <<1, 4>> >>, << <<1, 1>> >>}

KalshiSources == {<<>>, << <<"A", "P", " ", "n", "b", "c">> >>}

PolySources == {<< <<>> >>, << <<"a", "p">> >>}

KalshiSides ==
    [title : KalshiTitles, description : Descriptions, volume_usd : KalshiVolumes,
     final_price_yes : KalshiPrices, source : KalshiSources]

PolySides ==
    [title : PolyTitles, description : Descriptions, volume_usd : PolyVolumes,
     final_price_yes : PolyPrices, source : PolySources]

Pairs ==
    [kalshi : KalshiSides, polymarket : PolySides,
     resolution_alignment : [matched : BOOLEAN]]

\* A MarketPair of the data model: every field present, volume_usd >= 0 and
\* final_price_yes in [0,1].
ValidSide(side) ==
    /\ side.volume_usd # <<>> /\ side.volume_usd[1] >= 0
    /\ side.final_price_yes # <<>>
    /\ RLe(RInt(0), side.final_price_yes[1]) /\ RLe(side.final_price_yes[1], RInt(1))
    /\ side.source # <<>>

ValidPair(pair) == ValidSide(pair.kalshi) /\ ValidSide(pair.polymarket)


---------------------------------------------------------------------------
(* prepare_training_data *)

RECURSIVE prepare_from(_, _, _, _)
prepare_from(ps, i, Xacc, yacc) ==
    IF i > Len(ps) THEN [error |-> "", X |-> Xacc, y |-> yacc]
    ELSE LET r == extract_features(ps[i])
         IN  IF r.error # "" THEN [error |-> r.error, X |-> <<>>, y |-> <<>>]
             ELSE prepare_from(ps, i + 1,
                               Append(Xacc, to_array(r.value[1])),
                               Append(yacc, IF ps[i].resolution_alignment.matched
                                            THEN 1 ELSE 0))

prepare_training_data(ps) == prepare_from(ps, 1, <<>>, <<>>)

---------------------------------------------------------------------------
(* augment_training_data *)

\* Values np.random.normal(0, 0.05, ...) is taken to draw: 0, +-1 and +-2
\* standard deviations.
NoiseValues == << <<0, 1>>, <<1, 20>>, <<-1, 20>>, <<1, 10>>, <<-1, 10>> >>

\* The t-th draw of the generator started in state seed
NoiseDraw(seed, t) == NoiseValues[(((seed + 1) * t + seed) % Len(NoiseValues)) + 1]

\* np.clip(v, 0, 1)
Clip01(v) == RMax(RInt(0), RMin(v, RInt(1)))

\* The c-th noisy copy: np.clip(X + noise, 0, 1), noise drawn row by row
NoisyCopy(Xm, seed, c) ==
    [i \in 1..Len(Xm) |->
        [j \in 1..Len(Xm[i]) |->
            Clip01(RAdd(Xm[i][j],
                        NoiseDraw(seed, ((c - 1) * Len(Xm) + (i - 1)) * Len(Xm[i]) + j)))]]

\* The loop of lines 139-143, then vstack / hstack
RECURSIVE augment_loop(_, _, _, _, _, _, _)
augment_loop(Xm, yv, factor, seed, c, Xacc, yacc) ==
    IF c > factor - 1 THEN [X |-> Xacc, y |-> yacc]
    ELSE augment_loop(Xm, yv, factor, seed, c + 1,
                      Xacc \o NoisyCopy(Xm, seed, c), yacc \o yv)

\* range(factor) in place of range(factor - 1)
augment_one_copy_more(Xm, yv, factor, seed) ==
    augment_loop(Xm, yv, factor + 1, seed, 1, Xm, yv)

augment_training_data(Xm, yv, factor, seed) ==
    augment_loop(Xm, yv, factor, seed, 1, Xm, yv)

---------------------------------------------------------------------------
(* Weight estimators *)

\* keyword_overlap and category_match exchanged
FallbackWeightsSwapped ==
    << <<3, 25>>, <<2, 25>>, <<3, 20>>, <<1, 4>>, <<1, 10>>, <<3, 25>>,
       <<2, 25>>, <<3, 100>>, <<3, 100>>, <<1, 50>>, <<1, 50>> >>

\* Line 169-181, in hundredths
FallbackWeights ==
    << <<3, 25>>, <<2, 25>>, <<1, 4>>, <<3, 20>>, <<1, 10>>, <<3, 25>>,
       <<2, 25>>, <<3, 100>>, <<3, 100>>, <<1, 50>>, <<1, 50>> >>

FallbackInterceptLow == <<-1, 2>>

FallbackIntercept == <<-3, 10>>

estimate_weights_simple(Xm, yv) ==
    [error |-> "", weights |-> FallbackWeights, intercept |-> FallbackIntercept]

Classes(yv) == {yv[i] : i \in DOMAIN yv}

ClassCount(yv, c) == Cardinality({i \in DOMAIN yv : yv[i] = c})

\* Coefficient vectors and intercepts LogisticRegression.fit may arrive at
LearnedModels ==
    { [weights |-> FallbackWeights, intercept |-> <<-1, 2>>],
      [weights |-> [j \in 1..NumFeatures |-> <<-1, 10>>], intercept |-> <<1, 20>>],
      [weights |-> [j \in 1..NumFeatures |-> IF j = 3 THEN <<2, 1>> ELSE <<0, 1>>],
       intercept |-> <<-1, 1>>] }

\* train_logistic_weights; learned is what fit() converges to.  sklearn's
\* fit raises ValueError unless y holds at least two classes.
train_logistic_weights(Xm, yv, sklearn, learned) ==
    IF ~sklearn THEN estimate_weights_simple(Xm, yv)
    ELSE IF Cardinality(Classes(yv)) < 2
         THEN [error |-> "ValueError:154", weights |-> <<>>, intercept |-> <<0, 1>>]
         ELSE [error |-> "", weights |-> learned.weights, intercept |-> learned.intercept]

\* Importance vectors RandomForestClassifier.fit may arrive at
LearnedImportances ==
    { [j \in 1..NumFeatures |-> IF j = 3 THEN <<1, 1>> ELSE <<0, 1>>],
      [j \in 1..NumFeatures |-> <<1, 11>>],
      [j \in 1..NumFeatures |-> <<0, 1>>] }

CvAccuracies == {<<1, 2>>, <<1, 1>>}

\* train_random_forest.  cross_val_score with cv = min(3, len(y)) raises
\* ValueError when cv < 2 or when no class has cv members.
train_random_forest(Xm, yv, sklearn, importances, acc) ==
    IF ~sklearn
    THEN [error |-> "",
          feature_importances |-> estimate_weights_simple(Xm, yv).weights,
          accuracy |-> <<>>]
    ELSE LET cv == Min(3, Len(yv))
         IN  IF Len(yv) = 0
             THEN [error |-> "ValueError:193", feature_importances |-> <<>>, accuracy |-> <<>>]
             ELSE IF cv < 2 \/ \A c \in Classes(yv) : ClassCount(yv, c) < cv
             THEN [error |-> "ValueError:197", feature_importances |-> <<>>, accuracy |-> <<>>]
             ELSE [error |-> "", feature_importances |-> importances, accuracy |-> <<acc>>]

---------------------------------------------------------------------------
(* evaluate_model *)

NaN == <<0, 0>>

RECURSIVE DotFrom(_, _, _)
DotFrom(row, w, j) ==
    IF j > Len(row) THEN <<0, 1>>
    ELSE RAdd(RMul(row[j], w[j]), DotFrom(row, w, j + 1))

\* Line 207, one row
Score(row, w, b) == RAdd(DotFrom(row, w, 1), b)

\* Lines 204-208: sigmoid(s) >= 0.5, that is s >= 0 (the clip to
\* [-500, 500] keeps the sign; float rounding of scores within about
\* 1e-16 of 0 is not modelled)
Predict(row, w, b) == IF RLe(<<0, 1>>, Score(row, w, b)) THEN 1 ELSE 0

CountWhere(Xm, yv, w, b, p, l) ==
    Cardinality({i \in DOMAIN Xm : Predict(Xm[i], w, b) = p /\ yv[i] = l})

\* Lines 211-214
count_tp(Xm, yv, w, b) == CountWhere(Xm, yv, w, b, 1, 1)

count_fp(Xm, yv, w, b) == CountWhere(Xm, yv, w, b, 1, 0)

count_fn(Xm, yv, w, b) == CountWhere(Xm, yv, w, b, 0, 1)

count_tn_dup(Xm, yv, w, b) == CountWhere(Xm, yv, w, b, 0, 1)

count_tn(Xm, yv, w, b) == CountWhere(Xm, yv, w, b, 0, 0)

\* Line 210: the mean of an empty array is nan
accuracy_of(Xm, yv, w, b) ==
    IF Len(Xm) = 0 THEN NaN
    ELSE RMul(Rat(Cardinality({i \in DOMAIN Xm : Predict(Xm[i], w, b) = yv[i]}), Len(Xm)),
              RInt(PercentScale))

\* numpy's 0/0 is nan
precision_unguarded(tp, fp) ==
    IF tp + fp = 0 THEN NaN ELSE RMul(Rat(tp, tp + fp), RInt(PercentScale))

\* Line 216
precision_of(tp, fp) ==
    IF tp + fp > 0 THEN RMul(Rat(tp, tp + fp), RInt(PercentScale)) ELSE RInt(0)

\* Line 217
recall_of(tp, fn) ==
    IF tp + fn > 0 THEN RMul(Rat(tp, tp + fn), RInt(PercentScale)) ELSE RInt(0)

\* Line 218
f1_of(precision, recall) ==
    IF RLt(RInt(0), RAdd(precision, recall))
    THEN RDiv(RMul(RMul(RInt(2), precision), recall), RAdd(precision, recall))
    ELSE RInt(0)

evaluate_model(Xm, yv, w, b) ==
    LET tp == count_tp(Xm, yv, w, b)
        fp == count_fp(Xm, yv, w, b)
        fn == count_fn(Xm, yv, w, b)
        tn == count_tn(Xm, yv, w, b)
        precision == precision_of(tp, fp)
        recall == recall_of(tp, fn)
    IN  [accuracy |-> accuracy_of(Xm, yv, w, b),
         precision |-> precision, recall |-> recall,
         f1_score |-> f1_of(precision, recall),
         confusion_matrix |-> [tp |-> tp, fp |-> fp, fn |-> fn, tn |-> tn]]


---------------------------------------------------------------------------
(* main(): the input file and the batch run *)

AugmentFactor == 20

ResolutionIntercept == <<-1, 5>>

feature_names ==
    << "title_similarity", "description_similarity", "keyword_overlap",
       "category_match", "timing_match", "sources_match", "alignment_score",
       "volume_ratio", "price_correlation", "length_ratio", "avg_word_count" >>

\* Pairs the input file is taken to hold: empty and non-empty text, zero and
\* positive volumes, both labels; every field of the data model is present.
FileKalshiSides ==
    [title : {<<>>, <<"A", " ", "b">>},
     description : {<<>>},
     volume_usd : {<<0>>},
     final_price_yes : {<< <<0, 1>> >>},
     source : {<< <<"A", "P">> >>}]

FilePolySides ==
    { [title |-> <<>>, description |-> <<>>, volume_usd |-> <<0>>,
       final_price_yes |-> << <<1, 1>> >>, source |-> << <<"n", "b", "c">> >>],
      [title |-> <<>>, description |-> <<"b">>, volume_usd |-> <<3>>,
       final_price_yes |-> << <<1, 1>> >>, source |-> << <<"n", "b", "c">> >>] }

FilePairs ==
    [kalshi : FileKalshiSides, polymarket : FilePolySides,
     resolution_alignment : [matched : BOOLEAN]]

FileContents == UNION {[1..n -> FilePairs] : n \in 0..MaxPairs}

NoCall == [fn |-> "none", args |-> <<>>, ret |-> <<>>]

Init ==
    /\ pc = "start"
    /\ fileExists \in BOOLEAN
    /\ fileData \in (IF fileExists THEN FileContents ELSE {<<>>})
    /\ SKLEARN_AVAILABLE \in BOOLEAN
    /\ rngSeed \in 0..MaxSeed
    /\ pairs = <<>> /\ X = <<>> /\ y = <<>> /\ X_aug = <<>> /\ y_aug = <<>>
    /\ matching_weights = <<>> /\ matching_intercept = <<0, 1>>
    /\ metrics = <<>> /\ resolution_weights = <<>>
    /\ output_file = <<>>
    /\ error = ""
    /\ ran = {}
    /\ call = NoCall

inputVars == <<fileExists, fileData, SKLEARN_AVAILABLE, rngSeed, call>>

\* An uncaught exception ends main()
Raise(e) == pc' = "crashed" /\ error' = e

\* Lines 237-239 without the return
CheckInputNoReturn ==
    /\ pc = "start"
    /\ pc' = "load"
    /\ UNCHANGED <<inputVars, pairs, X, y, X_aug, y_aug, matching_weights,
                   matching_intercept, metrics, resolution_weights, output_file,
                   error, ran>>

\* Lines 235-239
CheckInput ==
    /\ pc = "start"
    /\ pc' = IF fileExists THEN "load" ELSE "done"
    /\ UNCHANGED <<inputVars, pairs, X, y, X_aug, y_aug, matching_weights,
                   matching_intercept, metrics, resolution_weights, output_file,
                   error, ran>>

\* Lines 241-243; open() raises when the file is absent
Load ==
    /\ pc = "load"
    /\ ran' = ran \cup {"load"}
    /\ IF fileExists
       THEN pairs' = fileData /\ pc' = "prepare" /\ error' = error
       ELSE pairs' = pairs /\ Raise("FileNotFoundError:62")
    /\ UNCHANGED <<inputVars, X, y, X_aug, y_aug, matching_weights,
                   matching_intercept, metrics, resolution_weights, output_file>>

\* Lines 246-248
Prepare ==
    /\ pc = "prepare"
    /\ ran' = ran \cup {"extract"}
    /\ LET r == prepare_training_data(pairs)
       IN  IF r.error = ""
           THEN X' = r.X /\ y' = r.y /\ pc' = "augment" /\ error' = error
           ELSE X' = X /\ y' = y /\ Raise(r.error)
    /\ UNCHANGED <<inputVars, pairs, X_aug, y_aug, matching_weights,
                   matching_intercept, metrics, resolution_weights, output_file>>

\* Lines 251-252
Augment ==
    /\ pc = "augment"
    /\ ran' = ran \cup {"augment"}
    /\ LET r == augment_training_data(X, y, AugmentFactor, rngSeed)
       IN  X_aug' = r.X /\ y_aug' = r.y
    /\ pc' = "train_matching"
    /\ UNCHANGED <<inputVars, pairs, X, y, matching_weights, matching_intercept,
                   metrics, resolution_weights, output_file, error>>

\* Lines 259-268.  np.array([]) of no pairs is one-dimensional, and fit
\* rejects X_aug and y_aug of different lengths.
TrainMatching ==
    /\ pc = "train_matching"
    /\ ran' = ran \cup {"estimate_matching"}
    /\ \E learned \in LearnedModels :
         LET r == train_logistic_weights(X_aug, y_aug, SKLEARN_AVAILABLE, learned)
         IN  IF SKLEARN_AVAILABLE /\ Len(pairs) = 0
             THEN Raise("ValueError:154")
                  /\ UNCHANGED <<matching_weights, matching_intercept>>
             ELSE IF r.error # ""
             THEN Raise(r.error) /\ UNCHANGED <<matching_weights, matching_intercept>>
             ELSE /\ matching_weights' = r.weights
                  /\ matching_intercept' = r.intercept
                  /\ pc' = "evaluate" /\ error' = error
    /\ UNCHANGED <<inputVars, pairs, X, y, X_aug, y_aug, metrics,
                   resolution_weights, output_file>>

\* Lines 271-276.  With no pairs X has shape (0,), and X @ weights raises.
Evaluate ==
    /\ pc = "evaluate"
    /\ ran' = ran \cup {"evaluate"}
    /\ IF Len(pairs) = 0
       THEN Raise("ValueError:207") /\ metrics' = metrics
       ELSE /\ metrics' = <<evaluate_model(X, y, matching_weights, matching_intercept)>>
            /\ pc' = "train_resolution" /\ error' = error
    /\ UNCHANGED <<inputVars, pairs, X, y, X_aug, y_aug, matching_weights,
                   matching_intercept, resolution_weights, output_file>>

\* Lines 284-289
TrainResolution ==
    /\ pc = "train_resolution"
    /\ ran' = ran \cup {"estimate_resolution"}
    /\ \E imp \in LearnedImportances, acc \in CvAccuracies :
         LET r == train_random_forest(X_aug, y_aug, SKLEARN_AVAILABLE, imp, acc)
         IN  IF r.error # ""
             THEN Raise(r.error) /\ resolution_weights' = resolution_weights
             ELSE /\ resolution_weights' = r.feature_importances
                  /\ pc' = "export" /\ error' = error
    /\ UNCHANGED <<inputVars, pairs, X, y, X_aug, y_aug, matching_weights,
                   matching_intercept, metrics, output_file>>

\* Lines 292-314
Export ==
    /\ pc = "export"
    /\ ran' = ran \cup {"export"}
    /\ output_file' =
         << [ matching_model |-> [weights |-> matching_weights,
                                  intercept |-> matching_intercept,
                                  metrics |-> metrics[1]],
              resolution_model |-> [feature_importances |-> resolution_weights,
                                    intercept |-> ResolutionIntercept],
              feature_names |-> feature_names,
              training_info |-> [n_samples |-> Len(pairs),
                                 n_augmented |-> Len(y_aug),
                                 sklearn_available |-> SKLEARN_AVAILABLE] ] >>
    /\ pc' = "done"
    /\ UNCHANGED <<inputVars, pairs, X, y, X_aug, y_aug, matching_weights,
                   matching_intercept, metrics, resolution_weights, error>>

Next ==
    \/ CheckInput
    \/ Load
    \/ Prepare
    \/ Augment
    \/ TrainMatching
    \/ Evaluate
    \/ TrainResolution
    \/ Export

Spec == Init /\ [][Next]_vars


---------------------------------------------------------------------------
(* Direct calls of the functions, one call per behaviour *)

ZeroRow == [j \in 1..NumFeatures |-> <<0, 1>>]

OneRow == [j \in 1..NumFeatures |-> <<1, 1>>]

EdgeRow == [j \in 1..NumFeatures |-> <<3, 10>>]

SampleRows == {ZeroRow, OneRow, EdgeRow}

\* (X, y): X two-dimensional, n rows of NumFeatures columns, y of length n
Datasets ==
    UNION { [X : [1..n -> SampleRows], y : [1..n -> {0, 1}]] : n \in 0..MaxRows }

WeightChoices == {FallbackWeights} \cup {lm.weights : lm \in LearnedModels}

InterceptChoices == {FallbackIntercept, <<0, 1>>} \cup {lm.intercept : lm \in LearnedModels}

CallInit ==
    /\ pc = "call"
    /\ fileExists = FALSE
    /\ fileData = <<>>
    /\ SKLEARN_AVAILABLE = FALSE
    /\ rngSeed = 0
    /\ pairs = <<>> /\ X = <<>> /\ y = <<>> /\ X_aug = <<>> /\ y_aug = <<>>
    /\ matching_weights = <<>> /\ matching_intercept = <<0, 1>>
    /\ metrics = <<>> /\ resolution_weights = <<>>
    /\ output_file = <<>>
    /\ error = ""
    /\ ran = {}
    /\ call = NoCall

mainVars == <<pc, fileExists, fileData, SKLEARN_AVAILABLE, rngSeed, pairs, X, y,
              X_aug, y_aug, matching_weights, matching_intercept, metrics,
              resolution_weights, output_file, error, ran>>

ExtractCall ==
    /\ pc = "call" /\ call = NoCall
    /\ \E pair \in Pairs :
         LET r == extract_features(pair)
         IN  call' = [fn |-> "extract_features", args |-> [pair |-> pair],
                      ret |-> [error |-> r.error, value |-> r.value,
                               array |-> IF r.error = "" THEN to_array(r.value[1])
                                         ELSE <<>>]]
    /\ UNCHANGED mainVars

AugmentCall ==
    /\ pc = "call" /\ call = NoCall
    /\ \E d \in Datasets, factor \in 1..MaxFactor, seed \in 0..MaxSeed :
         call' = [fn |-> "augment_training_data",
                  args |-> [X |-> d.X, y |-> d.y, factor |-> factor, seed |-> seed],
                  ret |-> augment_training_data(d.X, d.y, factor, seed)]
    /\ UNCHANGED mainVars

TrainLogisticCall ==
    /\ pc = "call" /\ call = NoCall
    /\ \E d \in Datasets, sklearn \in BOOLEAN, learned \in LearnedModels :
         call' = [fn |-> "train_logistic_weights",
                  args |-> [X |-> d.X, y |-> d.y, sklearn |-> sklearn],
                  ret |-> train_logistic_weights(d.X, d.y, sklearn, learned)]
    /\ UNCHANGED mainVars

TrainForestCall ==
    /\ pc = "call" /\ call = NoCall
    /\ \E d \in Datasets, sklearn \in BOOLEAN,
          imp \in LearnedImportances, acc \in CvAccuracies :
         call' = [fn |-> "train_random_forest",
                  args |-> [X |-> d.X, y |-> d.y, sklearn |-> sklearn],
                  ret |-> train_random_forest(d.X, d.y, sklearn, imp, acc)]
    /\ UNCHANGED mainVars

EvaluateCall ==
    /\ pc = "call" /\ call = NoCall
    /\ \E d \in Datasets, w \in WeightChoices, b \in InterceptChoices :
         call' = [fn |-> "evaluate_model",
                  args |-> [X |-> d.X, y |-> d.y, weights |-> w, intercept |-> b],
                  ret |-> evaluate_model(d.X, d.y, w, b)]
    /\ UNCHANGED mainVars

\* n copies of one matched pair, prepared and then evaluated with the
\* fallback estimate on the prepared rows (lines 246, 151 and 271)
FallbackScenarioCall ==
    /\ pc = "call" /\ call = NoCall
    /\ \E pair \in Pairs, n \in 1..MaxPairs :
         /\ pair.resolution_alignment.matched
         /\ LET ps == [i \in 1..n |-> pair]
                d == prepare_training_data(ps)
                m == estimate_weights_simple(d.X, d.y)
            IN  call' = [fn |-> "fallback_scenario",
                         args |-> [pairs |-> ps],
                         ret |-> [error |-> d.error,
                                  metrics |-> IF d.error = ""
                                              THEN <<evaluate_model(d.X, d.y, m.weights,
                                                                    m.intercept)>>
                                              ELSE <<>>]]
    /\ UNCHANGED mainVars

CallNext ==
    \/ ExtractCall
    \/ AugmentCall
    \/ TrainLogisticCall
    \/ TrainForestCall
    \/ EvaluateCall
    \/ FallbackScenarioCall

CallSpec == CallInit /\ [][CallNext]_vars


---------------------------------------------------------------------------
(* Properties *)

InUnit(v) == RLe(RInt(0), v) /\ RLe(v, RInt(1))

IsNumber(v) == ~IsNaN(v)

\* C1: for every valid MarketPair, each of the 11 components of
\* extract_features(pair).to_array() lies in [0,1]; in particular
\* avg_word_count / 20 is at most 1.
C1_ComponentsInUnitRange ==
    (call.fn = "extract_features" /\ ValidPair(call.args.pair) /\ call.ret.error = "")
        => \A j \in 1..NumFeatures : InUnit(call.ret.array[j])

BothTextsEmpty(pair) ==
    /\ pair.kalshi.title = <<>> /\ pair.kalshi.description = <<>>
    /\ pair.polymarket.title = <<>> /\ pair.polymarket.description = <<>>

\* C2: when both sides have an empty title and an empty description,
\* extract_features returns normally with keyword_overlap = 0.
C2_EmptyTextsOverlapZero ==
    (call.fn = "extract_features" /\ BothTextsEmpty(call.args.pair))
        => /\ call.ret.error = ""
           /\ call.ret.value[1].keyword_overlap = RInt(0)

\* C3: length_ratio and volume_ratio are min/max; for positive lengths and
\* volumes each lies in (0,1] and is 1 exactly when the two quantities are
\* equal; and the computation does not fail when both quantities are 0.
C3_RatiosGuarded ==
    call.fn = "extract_features" =>
        LET pair == call.args.pair
            k_len == Len(k_text_of(pair))
            p_len == Len(p_text_of(pair))
            k_vol == Get(pair.kalshi.volume_usd, 1)
            p_vol == Get(pair.polymarket.volume_usd, 1)
        IN  /\ call.ret.error \notin {"ZeroDivisionError:84", "ZeroDivisionError:88"}
            /\ call.ret.error = "" =>
                 LET fv == call.ret.value[1]
                 IN  /\ (k_len > 0 /\ p_len > 0) =>
                           /\ RLt(RInt(0), fv.length_ratio) /\ RLe(fv.length_ratio, RInt(1))
                           /\ (fv.length_ratio = RInt(1)) <=> (k_len = p_len)
                     /\ (k_vol > 0 /\ p_vol > 0) =>
                           /\ RLt(RInt(0), fv.volume_ratio) /\ RLe(fv.volume_ratio, RInt(1))
                           /\ (fv.volume_ratio = RInt(1)) <=> (k_vol = p_vol)

\* C4: augment_training_data returns k*n rows and k*n labels, the first n
\* rows being the rows of X unchanged and the labels y repeated k times in
\* order; for k = 1 the result is the input.
C4_AugmentShape ==
    call.fn = "augment_training_data" =>
        LET n == Len(call.args.X)
            k == call.args.factor
        IN  /\ Len(call.ret.X) = k * n
            /\ Len(call.ret.y) = k * n
            /\ \A i \in 1..n : call.ret.X[i] = call.args.X[i]
            /\ \A i \in 1..Len(call.ret.y) : call.ret.y[i] = call.args.y[((i - 1) % n) + 1]
            /\ k = 1 => (call.ret.X = call.args.X /\ call.ret.y = call.args.y)

C4_Witness ==
    /\ call.fn = "augment_training_data"
    /\ call.args.factor >= 2
    /\ Len(call.args.X) >= 2
    /\ \E i \in 1..Len(call.args.X) :
          call.ret.X[Len(call.args.X) + i] # call.args.X[i]

\* C5: the confusion matrix of evaluate_model satisfies
\* tp + fp + fn + tn = len(y), all four counts being non-negative.
C5_ConfusionTotal ==
    call.fn = "evaluate_model" =>
        LET cm == call.ret.confusion_matrix
        IN  /\ cm.tp >= 0 /\ cm.fp >= 0 /\ cm.fn >= 0 /\ cm.tn >= 0
            /\ cm.tp + cm.fp + cm.fn + cm.tn = Len(call.args.y)

C5_Witness ==
    /\ call.fn = "evaluate_model"
    /\ Len(call.args.y) >= 2
    /\ call.ret.confusion_matrix.tn >= 1
    /\ call.ret.confusion_matrix.tp >= 1

\* C6: for every all-matched dataset whose rows come from extract_features,
\* the fallback weights and intercept -0.3 evaluated on the original rows
\* give fn = 0 and recall = 100.
C6_FallbackRecall ==
    (call.fn = "fallback_scenario" /\ call.ret.error = "")
        => /\ call.ret.metrics[1].confusion_matrix.fn = 0
           /\ call.ret.metrics[1].recall = RInt(100)

C6_Witness ==
    /\ call.fn = "fallback_scenario"
    /\ call.ret.error = ""
    /\ Len(call.args.pairs) >= 2
    /\ call.ret.metrics[1].confusion_matrix.tp = Len(call.args.pairs)
    /\ extract_features(call.args.pairs[1]).value[1].keyword_overlap = RInt(0)

\* The calibration weights of lines 170-180, in hundredths
CalibrationHundredths == <<12, 8, 25, 15, 10, 12, 8, 3, 3, 2, 2>>

IsCalibrationVector(w) ==
    /\ Len(w) = NumFeatures
    /\ \A j \in 1..NumFeatures : w[j] = Rat(CalibrationHundredths[j], 100)

\* keyword_overlap > category_match > sources_match = title_similarity >
\* timing_match > description_similarity = alignment_score >
\* volume_ratio = price_correlation > length_ratio = avg_word_count
DocumentedOrdering(w) ==
    /\ RLt(w[4], w[3]) /\ RLt(w[6], w[4]) /\ w[6] = w[1] /\ RLt(w[5], w[1])
    /\ RLt(w[2], w[5]) /\ w[2] = w[7] /\ RLt(w[8], w[7]) /\ w[8] = w[9]
    /\ RLt(w[10], w[9]) /\ w[10] = w[11]

\* C7: without the trained strategy, train_logistic_weights returns the same
\* fixed 11-entry vector and the intercept -0.3 for every input, and
\* train_random_forest returns that vector as feature_importances; the
\* vector respects the documented ordering.
C7_FallbackFixed ==
    /\ (call.fn = "train_logistic_weights" /\ ~call.args.sklearn)
          => /\ call.ret.error = ""
             /\ IsCalibrationVector(call.ret.weights)
             /\ DocumentedOrdering(call.ret.weights)
             /\ call.ret.intercept = Rat(-3, 10)
    /\ (call.fn = "train_random_forest" /\ ~call.args.sklearn)
          => /\ call.ret.error = ""
             /\ IsCalibrationVector(call.ret.feature_importances)

C7_Witness ==
    /\ call.fn = "train_random_forest"
    /\ ~call.args.sklearn
    /\ Len(call.args.X) >= 1
    /\ \E i \in DOMAIN call.args.y : call.args.y[i] = 0

\* C8: evaluate_model never fails on a zero denominator: precision is 0 when
\* tp + fp = 0, recall is 0 when tp + fn = 0, F1 is 0 when precision +
\* recall = 0; otherwise each is the usual quotient in percent.
C8_MetricGuards ==
    call.fn = "evaluate_model" =>
        LET cm == call.ret.confusion_matrix
            P == call.ret.precision
            R == call.ret.recall
            F == call.ret.f1_score
        IN  /\ IsNumber(P) /\ IsNumber(R) /\ IsNumber(F)
            /\ cm.tp + cm.fp = 0 => P = RInt(0)
            /\ cm.tp + cm.fp > 0 => P[1] * (cm.tp + cm.fp) = 100 * cm.tp * P[2]
            /\ cm.tp + cm.fn = 0 => R = RInt(0)
            /\ cm.tp + cm.fn > 0 => R[1] * (cm.tp + cm.fn) = 100 * cm.tp * R[2]
            /\ RAdd(P, R) = RInt(0) => F = RInt(0)
            /\ RAdd(P, R) # RInt(0) => RMul(F, RAdd(P, R)) = RMul(RInt(2), RMul(P, R))

C8_Witness ==
    /\ call.fn = "evaluate_model"
    /\ call.ret.confusion_matrix.tp + call.ret.confusion_matrix.fp = 0
    /\ call.ret.confusion_matrix.fn >= 1
    /\ call.ret.precision = RInt(0)

\* C9: if the input file does not exist when main starts, the run ends
\* normally without executing the load, extract, augment, estimate,
\* evaluate or export steps, and trained_models.json is never written.
C9_MissingInputAborts ==
    ~fileExists =>
        /\ pc \in {"start", "done"}
        /\ ran = {}
        /\ error = ""
        /\ output_file = <<>>

C9_Witness == ~fileExists /\ pc = "done"

Stages ==
    {"load", "extract", "augment", "estimate_matching", "evaluate",
     "estimate_resolution", "export"}

\* C10: if the input file exists and holds valid MarketPairs, then under
\* either value of the capability flag the run passes through every stage
\* and writes the artifact, whose training_info records the flag; no stage
\* aborts the run.  Stated of the run's final state.
C10_ValidInputCompletes ==
    (/\ fileExists
     /\ Len(fileData) >= 1
     /\ \A i \in DOMAIN fileData : ValidPair(fileData[i])
     /\ pc \in {"done", "crashed"})
        => /\ pc = "done"
           /\ error = ""
           /\ ran = Stages
           /\ output_file # <<>>
           /\ output_file[1].training_info.sklearn_available = SKLEARN_AVAILABLE


====
